---- MODULE Spec2Model ----
(***************************************************************************)
(* A model of muxet's v1 HTTP client: the Client configuration with its    *)
(* fluent setters, and Client.DoRequest, the request pipeline (URL         *)
(* resolution, header merge, pre-send hook, body serialization, the retry  *)
(* loop with exponential backoff, post-receive hook, output decoding).     *)
(*                                                                         *)
(* DoRequest is cut into steps at the points where it calls out (hooks,    *)
(* transport) so that the order of those calls is visible.  Go maps are    *)
(* reference values: the model keeps them in a heap, `maps`, and the       *)
(* client and each request descriptor hold a map id.                       *)
(***************************************************************************)
EXTENDS Integers, Sequences, FiniteSets, TLC

\* ------------------------------------------------------------------ bounds

\* largest retry count the environment passes to SetMaxRetries
MaxRetriesBound == 2
\* largest backoff base (in time units) the environment passes to SetBackoff
MaxBackoff == 2

\* ----------------------------------------------------------- input domains

\* goroutines that may be inside DoRequest
Calls == {1, 2}

\* header keys: two spellings of one header name
Keys == {"X-A", "x-a"}
\* values a SetHeader call, a per-call header map and a pre-send hook write
DefaultValues == {"d"}
CallValues == {"p"}
HookValues == {"h"}
\* the header of the default content type, in two spellings
ContentTypeKeys == {"Content-Type", "content-type"}

\* request bodies: nil, a value json.Marshal encodes, one it rejects (a chan)
NilBody == "nil"
Bodies == {NilBody, "obj", "chan"}
\* bodies a pre-send hook may put in place of the caller's: a list as well
HookBodies == Bodies \cup {"arr"}
\* out: nil, a *string, a pointer to a struct
Outs == {"nil", "string", "struct"}

\* URL texts are sequences of tokens: a scheme with its colon, "//", a host name,
\* "/", a path element (a name or ".."), and "%", a percent sign that starts no
\* escape.  The empty text is the empty sequence.
Schemes == {"http:"}
NoURL == << >>
BadURL == <<"%">>
\* http://h/a
AbsURL == <<"http:", "//", "h", "/", "a">>
\* http://b/v1/ and http://b/v1
BaseDir == <<"http:", "//", "b", "/", "v1", "/">>
BaseFile == <<"http:", "//", "b", "/", "v1">>
\* relative references: a, /a, ../a, //h/a
RelURLs == {<<"a">>, <<"/", "a">>, <<"..", "/", "a">>, <<"//", "h", "/", "a">>}

\* the first and the last index of token t in s; Len(s) + 1 and 0 without one
IndexOf(s, t) ==
    IF \E i \in DOMAIN s : s[i] = t
    THEN CHOOSE i \in DOMAIN s : s[i] = t /\ \A j \in 1..(i - 1) : s[j] # t
    ELSE Len(s) + 1
LastIndexOf(s, t) ==
    IF \E i \in DOMAIN s : s[i] = t
    THEN CHOOSE i \in DOMAIN s : s[i] = t /\ \A j \in (i + 1)..Len(s) : s[j] # t
    ELSE 0

\* contexts: nil, or a context that is done (cancelled, expired) or not
NilCtx == [kind |-> "nil"]
CallerCtx(done) == [kind |-> "ctx", from |-> "caller", done |-> done]

\* ------------------------------------------------------------------- state

VARIABLES
    maps,        \* heap of map[string]string values, by map id
    timeout,     \* Client.timeout, in seconds
    BaseURL,     \* Client.BaseURL
    maxRetries,  \* Client.maxRetries
    backoff,     \* Client.backoff
    BeforeRequest, \* Client.BeforeRequest # nil
    AfterResponse, \* Client.AfterResponse # nil
    call         \* per goroutine: the frame of its DoRequest call

vars == <<maps, timeout, BaseURL, maxRetries, backoff, BeforeRequest, AfterResponse, call>>
client == <<timeout, BaseURL, maxRetries, backoff, BeforeRequest, AfterResponse>>

\* map id of Client.headers
ClientMap == 0

EmptyMap == [k \in {} |-> "d"]

\* m[k] = v on a Go map
MapSet(m, k, v) == [x \in (DOMAIN m) \cup {k} |-> IF x = k THEN v ELSE m[x]]

\* all map[string]string values with keys in Keys and values in V
MapsOver(K, V) == UNION {[D -> V] : D \in SUBSET K}

\* ------------------------------------------------------------------ errors

NilErr == [kind |-> "nil"]
NilResp == [kind |-> "nil"]

\* ---------------------------------------------------------------- NewClient

NilReq == [kind |-> "nil"]

IdleFrame ==
    [pc |-> "idle",
     ctx |-> NilCtx,
     method |-> "GET", rawURL |-> NoURL, body |-> NilBody, out |-> "nil",
     headers |-> EmptyMap,
     muxReq |-> NilReq,      \* the *Request handed to the pre-send hook
     origBody |-> "",        \* var origBody []byte
     attempt |-> 0,          \* the loop variable
     req |-> NilReq,         \* the *http.Request of the current attempt
     resp |-> NilResp,       \* var resp *http.Response
     lastErr |-> NilErr,     \* var lastErr error
     rawBody |-> "",         \* rawBody of the current attempt
     outVal |-> "",          \* what the call stored through out
     ret |-> [resp |-> NilResp, err |-> NilErr],
     \* observations of the calls the frame made
     nBefore |-> 0,          \* invocations of BeforeRequest
     nDo |-> 0,              \* invocations of the transport
     anyResp |-> FALSE,      \* some transport invocation returned a response
     nAfter |-> 0,           \* invocations of AfterResponse in the current attempt
     sleeps |-> <<>>,        \* the arguments of time.Sleep, in order
     last |-> "none",        \* the latest of: "do", "sleep"
     hookDid |-> [op |-> "none"], \* what the pre-send hook wrote
     answer |-> [kind |-> "none", hasResp |-> FALSE], \* the transport's latest answer
     sawOK |-> FALSE,        \* some transport answer had a status in [200,300)
     nMarshal |-> 0,         \* invocations of json.Marshal
     sent |-> [has |-> FALSE, bytes |-> ""], \* the body the transport read last
     noClose |-> {},         \* attempts whose response body has no Close deferred
     fault |-> "none"]       \* the failure that is not retried, once one happened

\* timeout: 5 * time.Second
DefaultTimeout == 5

NewClient ==
    /\ maps = [i \in {ClientMap} |-> EmptyMap]
    /\ timeout = DefaultTimeout
    /\ BaseURL = NoURL
    /\ maxRetries = 0
    /\ backoff = 0
    /\ BeforeRequest = FALSE
    /\ AfterResponse = FALSE

Init ==
    /\ NewClient
    /\ call = [c \in Calls |-> IdleFrame]

NoCallRunning == \A c \in Calls : call[c].pc = "idle"

\* ------------------------------------------------------------------ setters

SetTimeout(d) ==
    /\ NoCallRunning
    /\ timeout' = d
    /\ UNCHANGED <<maps, BaseURL, maxRetries, backoff, BeforeRequest, AfterResponse, call>>

SetHeader(key, value) ==
    /\ NoCallRunning
    /\ maps' = [maps EXCEPT ![ClientMap] = MapSet(@, key, value)]
    /\ UNCHANGED <<client, call>>

SetBaseURL(base) ==
    /\ NoCallRunning
    /\ BaseURL' = base
    /\ UNCHANGED <<maps, timeout, maxRetries, backoff, BeforeRequest, AfterResponse, call>>

SetMaxRetries(n) ==
    /\ NoCallRunning
    /\ maxRetries' = n
    /\ UNCHANGED <<maps, timeout, BaseURL, backoff, BeforeRequest, AfterResponse, call>>

SetBackoff(d) ==
    /\ NoCallRunning
    /\ backoff' = d
    /\ UNCHANGED <<maps, timeout, BaseURL, maxRetries, BeforeRequest, AfterResponse, call>>

SetBeforeRequestHook(set) ==
    /\ NoCallRunning
    /\ BeforeRequest' = set
    /\ UNCHANGED <<maps, timeout, BaseURL, maxRetries, backoff, AfterResponse, call>>

SetAfterResponseHook(set) ==
    /\ NoCallRunning
    /\ AfterResponse' = set
    /\ UNCHANGED <<maps, timeout, BaseURL, maxRetries, backoff, BeforeRequest, call>>

\* ------------------------------------------------------------ pure helpers

\* net/url's Parse on a URL text: the scheme when the text starts with one, then
\* either "//" and the host up to the next "/", or (after a scheme, before
\* anything but a "/") an opaque part, then the path; a "%" that starts no
\* escape is an error
urlParse(s) ==
    LET hasScheme == Len(s) > 0 /\ s[1] \in Schemes
        rest == IF hasScheme THEN Tail(s) ELSE s
        scheme == IF hasScheme THEN s[1] ELSE ""
        hasAuthority == Len(rest) > 0 /\ rest[1] = "//"
        afterSlashes == IF hasAuthority THEN Tail(rest) ELSE rest
        hostLen == IF hasAuthority THEN IndexOf(afterSlashes, "/") - 1 ELSE 0
        opaque == hasScheme /\ Len(rest) > 0 /\ rest[1] \notin {"/", "//"}
    IN IF \E i \in DOMAIN s : s[i] = "%"
       THEN [ok |-> FALSE, Scheme |-> "", Host |-> << >>, Opaque |-> << >>, Path |-> << >>]
       ELSE IF opaque
       THEN [ok |-> TRUE, Scheme |-> scheme, Host |-> << >>, Opaque |-> rest, Path |-> << >>]
       ELSE [ok |-> TRUE, Scheme |-> scheme,
             Host |-> SubSeq(afterSlashes, 1, hostLen),
             Opaque |-> << >>,
             Path |-> SubSeq(afterSlashes, hostLen + 1, Len(afterSlashes))]

\* u.String(): the text of a URL
urlString(u) ==
    LET scheme == IF u.Scheme # "" THEN <<u.Scheme>> ELSE << >> IN
    IF u.Opaque # << >> THEN scheme \o u.Opaque
    ELSE scheme
         \o (IF (u.Scheme # "" \/ u.Host # << >>) /\ (u.Host # << >> \/ u.Path # << >>)
             THEN <<"//">> ELSE << >>)
         \o (IF u.Scheme # "" \/ u.Host # << >> THEN u.Host ELSE << >>)
         \o (IF u.Path # << >> /\ u.Path[1] # "/" /\ u.Host # << >> THEN <<"/">> ELSE << >>)
         \o u.Path

IsAbs(u) == u.Scheme # ""

\* strings.Cut(s, "/"), repeated: the elements of a path
RECURSIVE SplitPath(_)
SplitPath(s) ==
    LET i == IndexOf(s, "/") IN
    IF i > Len(s) THEN <<s>>
    ELSE <<SubSeq(s, 1, i - 1)>> \o SplitPath(SubSeq(s, i + 1, Len(s)))

\* the elements of a path with the ".." elements applied: each removes the
\* element written last
RECURSIVE RemoveDotSegments(_, _)
RemoveDotSegments(elems, dst) ==
    IF elems = << >> THEN dst
    ELSE RemoveDotSegments(Tail(elems),
            IF Head(elems) = <<"..">>
            THEN (IF dst = << >> THEN << >> ELSE SubSeq(dst, 1, Len(dst) - 1))
            ELSE Append(dst, Head(elems)))

\* the elements of dst, each after the first behind a "/"
RECURSIVE JoinPath(_)
JoinPath(dst) ==
    IF dst = << >> THEN << >>
    ELSE IF Len(dst) = 1 THEN dst[1]
    ELSE dst[1] \o <<"/">> \o JoinPath(Tail(dst))

\* net/url's resolvePath: ref against base, as RFC 3986 section 5.2 has it
resolvePath(base, ref) ==
    LET full == IF ref = << >> THEN base
                ELSE IF ref[1] # "/" THEN SubSeq(base, 1, LastIndexOf(base, "/")) \o ref
                ELSE ref
        elems == SplitPath(full)
        r == <<"/">> \o JoinPath(RemoveDotSegments(elems, << >>))
               \o (IF elems[Len(elems)] = <<"..">> THEN <<"/">> ELSE << >>)
    IN IF full = << >> THEN << >>
       ELSE IF Len(r) > 1 /\ r[2] = "/" THEN Tail(r) ELSE r

\* base.ResolveReference(u)
ResolveReference(base, u) ==
    LET scheme == IF u.Scheme = "" THEN base.Scheme ELSE u.Scheme IN
    IF u.Scheme # "" \/ u.Host # << >>
    THEN [u EXCEPT !.Scheme = scheme, !.Path = resolvePath(u.Path, << >>)]
    ELSE IF u.Opaque # << >>
    THEN [u EXCEPT !.Scheme = scheme, !.Host = << >>, !.Path = << >>]
    ELSE IF u.Path = << >> /\ base.Opaque # << >>
    THEN [u EXCEPT !.Scheme = scheme, !.Opaque = base.Opaque, !.Host = << >>, !.Path = << >>]
    ELSE [u EXCEPT !.Scheme = scheme, !.Host = base.Host,
                   !.Path = resolvePath(base.Path, u.Path)]

\* (a variant that parses the base URL before it looks at the input)
resolveURLBaseFirst(input) ==
    LET u == urlParse(input)
        base == urlParse(BaseURL)
    IN IF ~u.ok THEN [err |-> [kind |-> "url", cause |-> "request"], url |-> << >>]
       ELSE IF ~base.ok THEN [err |-> [kind |-> "url", cause |-> "base"], url |-> << >>]
       ELSE IF IsAbs(u) \/ BaseURL = NoURL THEN [err |-> NilErr, url |-> input]
       ELSE [err |-> NilErr, url |-> urlString(ResolveReference(base, u))]

resolveURL(input) ==
    LET u == urlParse(input) IN
    IF ~u.ok THEN [err |-> [kind |-> "url", cause |-> "request"], url |-> << >>]
    ELSE IF IsAbs(u) \/ BaseURL = NoURL THEN [err |-> NilErr, url |-> input]
    ELSE LET base == urlParse(BaseURL) IN
         IF ~base.ok THEN [err |-> [kind |-> "url", cause |-> "base"], url |-> << >>]
         ELSE [err |-> NilErr, url |-> urlString(ResolveReference(base, u))]

\* context.WithTimeout(context.Background(), d): done at once when d <= 0
WithTimeout(d) == [kind |-> "ctx", from |-> "timeout", done |-> d <= 0]

\* lines 70-74: the context of the call
CallContext(ctx) == IF ctx = NilCtx THEN WithTimeout(timeout) ELSE ctx

\* (a variant with one header map for all the calls of a client)
MakeMapShared(heap, c) ==
    [heap |-> [i \in (DOMAIN heap) \cup {1} |-> IF i = 1 THEN EmptyMap ELSE heap[i]],
     id |-> 1]

\* (a variant that makes no map: hdr is the client's own header map)
MakeMapAliased(heap, c) == [heap |-> heap, id |-> ClientMap]

\* make(map[string]string): a new map on the heap, owned by frame c
MakeMap(heap, c) ==
    [heap |-> [i \in (DOMAIN heap) \cup {c} |-> IF i = c THEN EmptyMap ELSE heap[i]],
     id |-> c]

\* for k, v := range src { heap[id][k] = v }
CopyInto(heap, id, src) ==
    [heap EXCEPT ![id] =
        [k \in (DOMAIN @) \cup (DOMAIN src) |-> IF k \in DOMAIN src THEN src[k] ELSE @[k]]]

\* the two loops of "Merge headers": defaults first, per-call headers over them
MergeHeaders(heap, id, headers) ==
    CopyInto(CopyInto(heap, id, heap[ClientMap]), id, headers)

\* json.Marshal on the bodies of the model
jsonMarshal(v) ==
    CASE v = "chan" -> [ok |-> FALSE, bytes |-> ""]
      [] v = "arr" -> [ok |-> TRUE, bytes |-> "[1]"]
      [] v = NilBody -> [ok |-> TRUE, bytes |-> "null"]
      [] OTHER -> [ok |-> TRUE, bytes |-> "{\"obj\":1}"]

\* json.Unmarshal into a struct, on the response bodies of the model
jsonUnmarshal(bytes) ==
    IF bytes = "{}" THEN [ok |-> TRUE, val |-> "struct{}"]
    ELSE [ok |-> FALSE, val |-> ""]

\* textproto.CanonicalMIMEHeaderKey, which http.Header.Set and Get apply
CanonicalKey(k) ==
    CASE k = "x-a" -> "X-A"
      [] k = "content-type" -> "Content-Type"
      [] OTHER -> k

\* req.Header after "for k, v := range hdr { req.Header.Set(k, v) }": Go ranges
\* over a map in an unspecified order, so of two keys with one canonical form
\* either may be set last
RangeSetHeaders(hdr) ==
    LET canon == {CanonicalKey(k) : k \in DOMAIN hdr} IN
    {h \in [canon -> {hdr[k] : k \in DOMAIN hdr}] :
        \A K \in canon : \E k \in DOMAIN hdr : CanonicalKey(k) = K /\ h[K] = hdr[k]}

\* (a variant that sets the default content type whatever the headers hold)
DefaultContentTypeAlways(h, body) ==
    IF body # NilBody THEN MapSet(h, "Content-Type", "application/json") ELSE h

\* the default Content-Type of a request with a body
DefaultContentType(h, body) ==
    IF body # NilBody /\ ("Content-Type" \notin DOMAIN h \/ h["Content-Type"] = "")
    THEN MapSet(h, "Content-Type", "application/json")
    ELSE h

\* bytes.NewReader(b), and what is left to read of a reader
NewReader(b) == [data |-> b, read |-> FALSE]
Remaining(r) == IF r.read THEN "" ELSE r.data

\* 1 << attempt
RECURSIVE Shl(_)
Shl(n) == IF n <= 0 THEN 1 ELSE 2 * Shl(n - 1)

\* (a variant that grows linearly)
SleepArgLinear(b, attempt) == b * (attempt + 1)

\* c.backoff * time.Duration(1<<attempt)
SleepArg(b, attempt) == b * Shl(attempt)

\* (a variant that is off by one at the upper end)
IsFailureStatusOffByOne(code) == code < 200 \/ code >= 299

\* resp.StatusCode < 200 || resp.StatusCode >= 300
IsFailureStatus(code) == code < 200 \/ code >= 300

\* ---------------------------------------------------------------- DoRequest

\* return resp, err
Finish(c, f, resp, err) ==
    call' = [call EXCEPT ![c] = [f EXCEPT !.pc = "done", !.ret = [resp |-> resp, err |-> err]]]

\* frame f, with the failure that is not retried noted
Fault(f, what) == [f EXCEPT !.fault = what]

\* lines 69-96: resolve the URL, merge the headers, build the descriptor
DoRequest(c, ctx, method, rawURL, body, out, headers) ==
    /\ call[c].pc = "idle"
    /\ LET f == [call[c] EXCEPT !.ctx = ctx, !.method = method, !.rawURL = rawURL, !.body = body,
                                 !.out = out, !.headers = headers]
           r == resolveURL(rawURL)
           m == MakeMap(maps, c)
       IN IF r.err # NilErr
          THEN /\ Finish(c, Fault(f, "url"), NilResp, r.err)
               /\ UNCHANGED maps
          ELSE /\ maps' = MergeHeaders(m.heap, m.id, headers)
               /\ call' = [call EXCEPT ![c] =
                     [f EXCEPT !.pc = "before",
                               !.muxReq = [kind |-> "req", Method |-> method, URL |-> r.url,
                                           Headers |-> m.id, Body |-> body,
                                           Context |-> CallContext(ctx)]]]
    /\ UNCHANGED client

\* what a pre-send hook may do to the descriptor before it returns
HookWrites(K) ==
    {[op |-> "none"]}
    \cup {[op |-> "header", key |-> k, value |-> v] : k \in K, v \in HookValues}
    \cup {[op |-> "body", value |-> b] : b \in HookBodies}

\* (a variant that does not return on the hook's error)
OnBeforeErrorIgnored(c, g) == call' = [call EXCEPT ![c] = [g EXCEPT !.pc = "marshal"]]

\* return nil, fmt.Errorf("before request hook failed: %w", err)
OnBeforeError(c, g) == Finish(c, g, NilResp, [kind |-> "before", cause |-> "hook"])

\* lines 98-102: the pre-send hook, when one is set; it does w, and fails or not
BeforeRequestHook(c, w, fails) ==
    /\ call[c].pc = "before"
    /\ LET f == call[c]
           g == [f EXCEPT !.nBefore = @ + 1, !.hookDid = w,
                          !.fault = IF fails THEN "before" ELSE @,
                          !.muxReq.Body = IF w.op = "body" THEN w.value ELSE @]
       IN IF ~BeforeRequest
          THEN /\ call' = [call EXCEPT ![c].pc = "marshal"]
               /\ UNCHANGED maps
          ELSE /\ maps' = IF w.op = "header"
                          THEN [maps EXCEPT ![f.muxReq.Headers] = MapSet(@, w.key, w.value)]
                          ELSE maps
               /\ IF fails
                  THEN OnBeforeError(c, g)
                  ELSE call' = [call EXCEPT ![c] = [g EXCEPT !.pc = "marshal"]]
    /\ UNCHANGED client

\* lines 104-113: serialize the body once
MarshalBody(c) ==
    /\ call[c].pc = "marshal"
    /\ LET f == call[c]
           m == jsonMarshal(f.muxReq.Body)
       IN IF f.muxReq.Body # NilBody /\ ~m.ok
          THEN Finish(c, [Fault(f, "marshal") EXCEPT !.nMarshal = @ + 1], NilResp,
                      [kind |-> "marshal", cause |-> "json"])
          ELSE call' = [call EXCEPT ![c] =
                 [f EXCEPT !.pc = "loop", !.attempt = 0,
                           !.nMarshal = IF f.muxReq.Body # NilBody THEN @ + 1 ELSE @,
                           !.origBody = IF f.muxReq.Body # NilBody THEN m.bytes ELSE ""]]
    /\ UNCHANGED <<maps, client>>

\* http.NewRequestWithContext rejects a method that is not a token
ValidMethod(method) == method # "B D"

\* (a variant that stops one attempt early)
LoopTestStrict(attempt) == attempt < maxRetries

\* attempt <= c.maxRetries
LoopTest(attempt) == attempt <= maxRetries

\* (a variant that makes one reader for the whole call)
RequestBodyShared(f) == IF f.req = NilReq THEN NewReader(f.origBody) ELSE f.req.Body

\* lines 116-119: reqBody, a reader over origBody made for this attempt
RequestBody(f) == NewReader(f.origBody)

\* (a variant that builds the transport request without the call's context)
RequestContextBackground(f) == [kind |-> "ctx", from |-> "background", done |-> FALSE]

\* line 121: the context http.NewRequestWithContext is given
RequestContext(f) == f.muxReq.Context

\* lines 115-136: the loop test, and the transport request of one attempt
NewRequest(c) ==
    /\ call[c].pc = "loop"
    /\ LoopTest(call[c].attempt)
    /\ LET f == call[c] IN
       IF ~ValidMethod(f.muxReq.Method)
       THEN Finish(c, Fault(f, "newreq"), NilResp, [kind |-> "newreq", cause |-> "method"])
       ELSE \E h \in RangeSetHeaders(maps[f.muxReq.Headers]) :
            call' = [call EXCEPT ![c] =
              [f EXCEPT !.pc = "do", !.nAfter = 0,
                        !.req = [kind |-> "req", Method |-> f.muxReq.Method,
                                 URL |-> f.muxReq.URL,
                                 Context |-> RequestContext(f),
                                 Body |-> RequestBody(f),
                                 HasBody |-> f.muxReq.Body # NilBody,
                                 Header |-> DefaultContentType(h, f.muxReq.Body)]]]
    /\ UNCHANGED <<maps, client>>

\* (a variant that keeps the first error recorded)
SleepAndContinueKeepsFirst(f, err) ==
    [f EXCEPT !.pc = "loop", !.lastErr = IF @ = NilErr THEN err ELSE @,
              !.sleeps = Append(@, SleepArg(backoff, f.attempt)),
              !.last = "sleep",
              !.rawBody = "",
              !.attempt = @ + 1]

\* time.Sleep(c.backoff * time.Duration(1<<attempt)); continue
SleepAndContinue(f, err) ==
    [f EXCEPT !.pc = "loop", !.lastErr = err,
              !.sleeps = Append(@, SleepArg(backoff, f.attempt)),
              !.last = "sleep",
              !.rawBody = "",
              !.attempt = @ + 1]

\* the transport's answers, the (resp, err) of HTTPDoer.Do: a response with a
\* status and a body and a nil error; an error and a nil response; an error and
\* a response as well (net/http's client does so when a redirect is refused)
TransportError == [kind |-> "err", hasResp |-> FALSE, code |-> 0, body |-> ""]
TransportErrorWith(code, body) == [kind |-> "err", hasResp |-> TRUE, code |-> code, body |-> body]
TransportResponses(codes, bodies) ==
    {[kind |-> "resp", hasResp |-> TRUE, code |-> code, body |-> b] :
        code \in codes, b \in bodies}

\* the *http.Response of an answer, received on attempt at
ResponseOf(answer, at) ==
    IF answer.hasResp
    THEN [kind |-> "resp", at |-> at, StatusCode |-> answer.code, unread |-> answer.body]
    ELSE NilResp

\* net/http's client, given a request whose context is done, returns an error
\* and no response
TransportAnswers(req, answers) ==
    IF req.Context.done THEN {a \in answers : a.kind = "err" /\ ~a.hasResp} ELSE answers

\* lines 138-146: the transport call; on an error, back off and go on
Do(c, answer) ==
    /\ call[c].pc = "do"
    /\ answer \in TransportAnswers(call[c].req, {answer})
    /\ LET f == [call[c] EXCEPT !.nDo = @ + 1, !.last = "do", !.answer = answer,
                                 !.sent = [has |-> call[c].req.HasBody,
                                           bytes |-> IF call[c].req.HasBody
                                                     THEN Remaining(call[c].req.Body)
                                                     ELSE ""],
                                 !.req.Body.read = TRUE,
                                 !.noClose = IF answer.kind = "resp"
                                             THEN @ \cup {call[c].attempt} ELSE @,
                                 !.resp = ResponseOf(answer, call[c].attempt),
                                 !.anyResp = @ \/ answer.hasResp,
                                 !.sawOK = @ \/ (answer.kind = "resp"
                                                 /\ answer.code \in 200..299)]
       IN
       IF answer.kind = "err"
       THEN call' = [call EXCEPT ![c] =
              SleepAndContinue(f, [kind |-> "net", at |-> f.attempt])]
       ELSE call' = [call EXCEPT ![c] = [f EXCEPT !.pc = "read"]]
    /\ UNCHANGED <<maps, client>>

\* lines 148-158: io.ReadAll(resp.Body), which may fail
ReadBody(c, fails) ==
    /\ call[c].pc = "read"
    /\ LET f == call[c] IN
       IF fails
       THEN Finish(c, Fault(f, "read"), f.resp, [kind |-> "read", cause |-> "io"])
       ELSE call' = [call EXCEPT ![c] =
              [f EXCEPT !.pc = "after", !.rawBody = f.resp.unread, !.resp.unread = ""]]
    /\ UNCHANGED <<maps, client>>

\* (a variant that treats the hook's error as a retryable failure)
OnAfterErrorRetried(c, g) ==
    call' = [call EXCEPT ![c] = SleepAndContinue(g, [kind |-> "after", at |-> g.attempt])]

\* return resp, fmt.Errorf("after response hook failed: %w", err)
OnAfterError(c, g) == Finish(c, g, g.resp, [kind |-> "after", cause |-> "hook"])

\* (a variant that runs the hook on responses with a success status only)
AfterHookRunsOn2xx(f) == AfterResponse /\ f.resp.StatusCode \in 200..299

\* c.AfterResponse != nil
AfterHookRuns(f) == AfterResponse

\* lines 160-164: the post-receive hook, when one is set
AfterResponseHook(c, fails) ==
    /\ call[c].pc = "after"
    /\ LET f == call[c]
           g == [f EXCEPT !.nAfter = @ + 1, !.fault = IF fails THEN "after" ELSE @]
       IN IF ~AfterHookRuns(f)
          THEN call' = [call EXCEPT ![c].pc = "status"]
          ELSE IF fails
          THEN OnAfterError(c, g)
          ELSE call' = [call EXCEPT ![c] = [g EXCEPT !.pc = "status"]]
    /\ UNCHANGED <<maps, client>>

\* lines 166-173: a status outside [200,300) is recorded, slept on and retried
CheckStatus(c) ==
    /\ call[c].pc = "status"
    /\ LET f == call[c] IN
       IF IsFailureStatus(f.resp.StatusCode)
       THEN call' = [call EXCEPT ![c] =
              SleepAndContinue([f EXCEPT !.resp.unread = "", !.noClose = @ \ {f.attempt}],
                               [kind |-> "http", at |-> f.attempt,
                                code |-> f.resp.StatusCode, body |-> f.resp.unread])]
       ELSE call' = [call EXCEPT ![c] =
              [f EXCEPT !.pc = "decode", !.noClose = @ \ {f.attempt}]]
    /\ UNCHANGED <<maps, client>>

\* (a variant that treats the decoding error as a retryable failure)
OnDecodeErrorRetried(c, f) ==
    call' = [call EXCEPT ![c] = SleepAndContinue(f, [kind |-> "decode", at |-> f.attempt])]

\* (a variant that swallows the decoding error)
OnDecodeErrorSwallowed(c, f) == Finish(c, f, f.resp, NilErr)

\* return resp, fmt.Errorf("failed to decode response: %w", err)
OnDecodeError(c, f) == Finish(c, f, f.resp, [kind |-> "decode", cause |-> "json"])

\* lines 175-186: store the body through out, and return the response
Decode(c) ==
    /\ call[c].pc = "decode"
    /\ LET f == call[c]
           u == jsonUnmarshal(f.rawBody)
       IN CASE f.out = "nil" -> Finish(c, f, f.resp, NilErr)
            [] f.out = "string" -> Finish(c, [f EXCEPT !.outVal = f.rawBody], f.resp, NilErr)
            [] OTHER ->
                 IF u.ok
                 THEN Finish(c, [f EXCEPT !.outVal = u.val], f.resp, NilErr)
                 ELSE OnDecodeError(c, Fault(f, "decode"))
    /\ UNCHANGED <<maps, client>>

\* line 189: the loop ran out of attempts
Exhausted(c) ==
    /\ call[c].pc = "loop"
    /\ ~LoopTest(call[c].attempt)
    /\ Finish(c, call[c], call[c].resp,
              [kind |-> "exhausted", attempts |-> maxRetries + 1, cause |-> call[c].lastErr])
    /\ UNCHANGED <<maps, client>>

\* the caller has its results; the frame and the map it made are dropped
Return(c) ==
    /\ call[c].pc = "done"
    /\ call' = [call EXCEPT ![c] = IdleFrame]
    /\ maps' = [i \in (DOMAIN maps) \ ({c} \ {ClientMap}) |-> maps[i]]
    /\ UNCHANGED client

\* ------------------------------------------------------------ specification

\* The environment: what the caller passes to the setters and to DoRequest, what
\* the hooks do and what the transport answers, each drawn from the sets of e.
NextIn(e) ==
    \/ \E d \in e.timeouts : SetTimeout(d)
    \/ \E k \in e.keys, v \in DefaultValues : SetHeader(k, v)
    \/ \E b \in e.baseURLs : SetBaseURL(b)
    \/ \E n \in e.retries : SetMaxRetries(n)
    \/ \E d \in e.backoffs : SetBackoff(d)
    \/ \E s \in BOOLEAN : SetBeforeRequestHook(s)
    \/ \E s \in e.afterHooks : SetAfterResponseHook(s)
    \/ \E c \in e.calls, x \in e.ctxs, m \in e.methods, u \in e.rawURLs, b \in e.bodies,
          o \in e.outs, h \in MapsOver(e.callKeys, e.callValues) :
            DoRequest(c, x, m, u, b, o, h)
    \/ \E c \in e.calls, w \in e.hookWrites, fails \in e.hookFails :
            BeforeRequestHook(c, w, fails)
    \/ \E c \in e.calls : MarshalBody(c)
    \/ \E c \in e.calls : NewRequest(c)
    \/ \E c \in e.calls, a \in e.answers : Do(c, a)
    \/ \E c \in e.calls, fails \in e.readFails : ReadBody(c, fails)
    \/ \E c \in e.calls, fails \in e.hookFails : AfterResponseHook(c, fails)
    \/ \E c \in e.calls : CheckStatus(c)
    \/ \E c \in e.calls : Decode(c)
    \/ \E c \in e.calls : Exhausted(c)
    \/ \E c \in e.calls : Return(c)

\* The retry pipeline: every retry count, backoff, hook setting, body, output
\* target and transport answer; one header key.
RetryEnv ==
    [calls |-> {1}, timeouts |-> {DefaultTimeout}, ctxs |-> {CallerCtx(FALSE)},
     keys |-> {"X-A"}, callKeys |-> {"X-A"}, callValues |-> CallValues,
     afterHooks |-> BOOLEAN, hookFails |-> BOOLEAN,
     baseURLs |-> {NoURL}, rawURLs |-> {AbsURL, BadURL},
     retries |-> (0 - 1)..MaxRetriesBound,
     backoffs |-> (0 - 1)..MaxBackoff,
     methods |-> {"GET", "B D"},
     bodies |-> Bodies, outs |-> Outs,
     hookWrites |-> {[op |-> "none"]},
     answers |-> {TransportError, TransportErrorWith(300, "x")}
                 \cup TransportResponses({199, 200, 299, 300}, {"{}", "x"}),
     readFails |-> BOOLEAN]

Next == NextIn(RetryEnv)

Spec == Init /\ [][Next]_vars

\* The headers: both spellings of the header key in the defaults, in the per-call
\* headers and in the pre-send hook's writes; up to two attempts per call.
HeaderEnv ==
    [calls |-> {1}, timeouts |-> {DefaultTimeout}, ctxs |-> {CallerCtx(FALSE)},
     keys |-> Keys, callKeys |-> Keys, callValues |-> CallValues,
     afterHooks |-> BOOLEAN, hookFails |-> BOOLEAN,
     baseURLs |-> {NoURL}, rawURLs |-> {AbsURL},
     retries |-> {0, 1},
     backoffs |-> {0},
     methods |-> {"GET"},
     bodies |-> {NilBody, "obj"}, outs |-> {"nil"},
     hookWrites |-> {w \in HookWrites(Keys) : w.op # "body"},
     answers |-> {TransportError} \cup TransportResponses({200, 300}, {"{}"}),
     readFails |-> {FALSE}]

NextHeaders == NextIn(HeaderEnv)

SpecHeaders == Init /\ [][NextHeaders]_vars

\* The request body and its content type: the Content-Type header, in both
\* spellings and with an empty value as well, in the defaults, the per-call
\* headers and the pre-send hook's writes; a hook that replaces the body; up to
\* two attempts per call.
BodyEnv ==
    [calls |-> {1}, timeouts |-> {DefaultTimeout}, ctxs |-> {CallerCtx(FALSE)},
     keys |-> {"Content-Type"}, callKeys |-> ContentTypeKeys, callValues |-> {"p", ""},
     afterHooks |-> {FALSE}, hookFails |-> {FALSE},
     baseURLs |-> {NoURL}, rawURLs |-> {AbsURL},
     retries |-> {0, 1},
     backoffs |-> {0},
     methods |-> {"GET"},
     bodies |-> {NilBody, "obj"}, outs |-> {"nil"},
     hookWrites |-> HookWrites(ContentTypeKeys),
     answers |-> {TransportError} \cup TransportResponses({200, 300}, {"{}"}),
     readFails |-> {FALSE}]

NextBody == NextIn(BodyEnv)

SpecBody == Init /\ [][NextBody]_vars

\* The context: a call given no context, a live one or one that is already
\* cancelled, on a client whose timeout is the default or zero; up to three
\* attempts per call.
CtxEnv ==
    [calls |-> {1}, timeouts |-> {0, DefaultTimeout},
     ctxs |-> {NilCtx, CallerCtx(FALSE), CallerCtx(TRUE)},
     keys |-> {"X-A"}, callKeys |-> {}, callValues |-> CallValues,
     afterHooks |-> BOOLEAN, hookFails |-> BOOLEAN,
     baseURLs |-> {NoURL}, rawURLs |-> {AbsURL},
     retries |-> {0, 1, 2},
     backoffs |-> {0, 1},
     methods |-> {"GET"},
     bodies |-> {NilBody}, outs |-> {"nil"},
     hookWrites |-> {[op |-> "none"]},
     answers |-> {TransportError, TransportErrorWith(300, "x")}
                 \cup TransportResponses({200, 300}, {"{}"}),
     readFails |-> BOOLEAN]

NextCtx == NextIn(CtxEnv)

SpecCtx == Init /\ [][NextCtx]_vars

\* The URLs: absolute, relative and malformed request URLs on a client with no
\* base URL, a base that ends in a directory or in a file, or a malformed one.
URLEnv ==
    [calls |-> {1}, timeouts |-> {DefaultTimeout}, ctxs |-> {CallerCtx(FALSE)},
     keys |-> {"X-A"}, callKeys |-> {}, callValues |-> CallValues,
     afterHooks |-> {FALSE}, hookFails |-> {FALSE},
     baseURLs |-> {NoURL, BaseDir, BaseFile, BadURL},
     rawURLs |-> {AbsURL, NoURL, BadURL} \cup RelURLs,
     retries |-> {0, 1},
     backoffs |-> {0},
     methods |-> {"GET"},
     bodies |-> {NilBody}, outs |-> {"nil"},
     hookWrites |-> {[op |-> "none"]},
     answers |-> {TransportError} \cup TransportResponses({200, 300}, {"{}"}),
     readFails |-> {FALSE}]

NextURL == NextIn(URLEnv)

SpecURL == Init /\ [][NextURL]_vars

\* Two goroutines in DoRequest on one client: both spellings of the header key
\* in the per-call headers, a pre-send hook that writes a header, up to two
\* attempts per call.
ConcurrentEnv ==
    [calls |-> Calls, timeouts |-> {DefaultTimeout}, ctxs |-> {CallerCtx(FALSE)},
     keys |-> {"X-A"}, callKeys |-> Keys, callValues |-> CallValues,
     afterHooks |-> {FALSE}, hookFails |-> {FALSE},
     baseURLs |-> {NoURL}, rawURLs |-> {AbsURL},
     retries |-> {0, 1},
     backoffs |-> {0},
     methods |-> {"GET"},
     bodies |-> {NilBody}, outs |-> {"nil"},
     hookWrites |-> {[op |-> "none"], [op |-> "header", key |-> "x-a", value |-> "h"]},
     answers |-> {TransportError} \cup TransportResponses({200}, {"{}"}),
     readFails |-> {FALSE}]

NextConcurrent == NextIn(ConcurrentEnv)

SpecConcurrent == Init /\ [][NextConcurrent]_vars

\* ------------------------------------------------------------------ claims

Returned(c) == call[c].pc = "done"

\* the call got as far as the retry loop and no failure that is not retried
\* ended it: every attempt it made ended in a network error or a status error
OnlyRetryableFailures(c) ==
    /\ Returned(c)
    /\ call[c].fault = "none"
    /\ ~call[c].sawOK

\* the call got as far as the retry loop, and the transport answered every
\* attempt with an error or a status outside [200,300)
TransportAlwaysFailed(c) ==
    /\ Returned(c)
    /\ call[c].fault \notin {"url", "before", "marshal", "newreq"}
    /\ ~call[c].sawOK

C2_BeforeHookErrorNoTransport ==
    \A c \in Calls :
        call[c].fault = "before"
            => /\ Returned(c)
               /\ call[c].ret.err = [kind |-> "before", cause |-> "hook"]
               /\ call[c].ret.resp = NilResp
               /\ call[c].nDo = 0

C2_Witness ==
    \E c \in Calls : call[c].fault = "before" /\ Returned(c) /\ maxRetries = 2

\* C3: when the post-receive hook returns an error on an attempt that received
\* a response, DoRequest returns at once with that error and that attempt's
\* response: no sleep follows the transport call and no further attempt is made.
C3_AfterHookErrorReturnsAtOnce ==
    \A c \in Calls :
        call[c].fault = "after"
            => /\ Returned(c)
               /\ call[c].ret.err = [kind |-> "after", cause |-> "hook"]
               /\ call[c].ret.resp # NilResp
               /\ call[c].ret.resp.at = call[c].attempt
               /\ call[c].ret.resp.StatusCode = call[c].answer.code
               /\ call[c].nDo = call[c].attempt + 1
               /\ Len(call[c].sleeps) = call[c].attempt
               /\ call[c].last = "do"

C3_Witness ==
    \E c \in Calls :
        /\ call[c].fault = "after"
        /\ Returned(c)
        /\ call[c].attempt = 1
        /\ maxRetries = 2
        /\ call[c].answer.code = 300

\* what a call stores through out for a response body
Stored(out, body) ==
    CASE out = "nil" -> ""
      [] out = "string" -> body
      [] OTHER -> jsonUnmarshal(body).val

\* C4: when attempts 0..k-1 fail retryably and attempt k <= maxRetries gets a
\* status in [200,300) that passes the post-receive hook and decodes, DoRequest
\* returns a nil error with the response and the decoded output of attempt k,
\* after exactly k+1 transport invocations.
C4_SuccessAfterRetries ==
    \A c \in Calls :
        (Returned(c) /\ call[c].sawOK /\ call[c].fault = "none")
            => /\ call[c].ret.err = NilErr
               /\ call[c].attempt <= maxRetries
               /\ call[c].ret.resp # NilResp
               /\ call[c].ret.resp.at = call[c].attempt
               /\ call[c].ret.resp.StatusCode = call[c].answer.code
               /\ call[c].ret.resp.StatusCode \in 200..299
               /\ call[c].outVal = Stored(call[c].out, call[c].answer.body)
               /\ call[c].nDo = call[c].attempt + 1

C4_Witness ==
    \E c \in Calls :
        /\ Returned(c) /\ call[c].sawOK /\ call[c].fault = "none"
        /\ maxRetries = 1
        /\ call[c].attempt = 1
        /\ call[c].lastErr.kind = "http"
        /\ call[c].out = "struct"
        /\ call[c].outVal = "struct{}"

\* C5: in a call against a permanently failing transport the sleeps are
\* backoff*1, backoff*2, backoff*4, ..., and every sleep is followed by a
\* further transport attempt: once the call has returned, the latest of its
\* sleeps and transport calls is a transport call.
C5_SleepsLieBetweenAttempts ==
    \A c \in Calls :
        /\ \A i \in 1..Len(call[c].sleeps) : call[c].sleeps[i] = backoff * 2^(i - 1)
        /\ (OnlyRetryableFailures(c) /\ maxRetries >= 0) => call[c].last # "sleep"

\* C6 as stated: the delay slept after the retryable failure of attempt i is
\* backoff * 2^i, for a network error and for a status error alike; it never
\* decreases as i grows, and is 0 for every i when backoff = 0.
C6_AsStated ==
    \A c \in Calls :
        LET sl == call[c].sleeps IN
        /\ \A i \in 1..Len(sl) : sl[i] = backoff * 2^(i - 1)
        /\ \A i \in 1..Len(sl), j \in 1..Len(sl) : i <= j => sl[i] <= sl[j]
        /\ backoff = 0 => \A i \in 1..Len(sl) : sl[i] = 0

\* C6, amended: the duration passed to time.Sleep after the retryable failure of
\* attempt i is backoff * 2^i, for a network error and for a status error alike,
\* and one sleep follows every such failure; it is 0 for every i when backoff = 0,
\* and it never decreases as i grows when backoff >= 0.
C6_BackoffDelays ==
    \A c \in Calls :
        LET sl == call[c].sleeps IN
        /\ \A i \in 1..Len(sl) : sl[i] = backoff * 2^(i - 1)
        /\ call[c].pc \in {"loop", "done"} /\ call[c].lastErr.kind \in {"net", "http"}
              => Len(sl) = call[c].lastErr.at + 1
        /\ backoff >= 0 => \A i \in 1..Len(sl), j \in 1..Len(sl) : i <= j => sl[i] <= sl[j]
        /\ backoff = 0 => \A i \in 1..Len(sl) : sl[i] = 0

C6_Witness ==
    \E c \in Calls :
        /\ backoff = 2
        /\ call[c].sleeps = <<2, 4, 8>>
        /\ call[c].lastErr.kind = "http"

\* the return is that of a completed attempt: a status in [200,300), the body
\* read, the post-receive hook passed, the output decoded
CompletedOK(c) ==
    /\ call[c].fault = "none"
    /\ call[c].answer.kind = "resp"
    /\ call[c].answer.code \in 200..299

\* C7 as stated: every return other than a completed 2xx attempt carries a
\* non-nil error, and every failure return of a call in which the transport
\* returned at least one response carries a non-nil response.
C7_AsStated ==
    \A c \in Calls :
        /\ (Returned(c) /\ ~CompletedOK(c)) => call[c].ret.err # NilErr
        /\ (Returned(c) /\ call[c].ret.err # NilErr /\ call[c].anyResp)
              => call[c].ret.resp # NilResp

\* C7, amended: every return other than a completed 2xx attempt carries a
\* non-nil error, and every failure return of a call whose latest transport
\* invocation returned a response carries that response; a call whose latest
\* transport invocation returned no response returns a nil response, also when
\* an earlier attempt had received one.
C7_ErrorAndLatestResponse ==
    \A c \in Calls :
        /\ (Returned(c) /\ ~CompletedOK(c)) => call[c].ret.err # NilErr
        /\ (Returned(c) /\ call[c].ret.err # NilErr /\ call[c].answer.hasResp)
              => /\ call[c].ret.resp # NilResp
                 /\ call[c].ret.resp.at = call[c].nDo - 1
                 /\ call[c].ret.resp.StatusCode = call[c].answer.code
        /\ (Returned(c) /\ ~call[c].answer.hasResp) => call[c].ret.resp = NilResp

C7_Witness ==
    \E c \in Calls :
        /\ Returned(c)
        /\ call[c].ret.err.kind = "exhausted"
        /\ call[c].answer.hasResp
        /\ call[c].ret.resp # NilResp
        /\ call[c].nDo = 2

\* http.Header.Get on the transport request's headers
HeaderGet(h, k) == IF CanonicalKey(k) \in DOMAIN h THEN h[CanonicalKey(k)] ELSE ""

\* C8: in the headers of the request handed to the transport on every attempt,
\* a key given in the per-call headers carries the per-call value, also when the
\* client defaults hold that header, and every default header that no per-call
\* key overrides is present with its default value (stated here for the calls
\* whose pre-send hook wrote no header).
C8_PerCallHeaderWins ==
    \A c \in Calls :
        (call[c].pc = "do" /\ call[c].hookDid.op # "header")
            => /\ \A k \in DOMAIN call[c].headers :
                     HeaderGet(call[c].req.Header, k) = call[c].headers[k]
               /\ \A k \in DOMAIN maps[ClientMap] :
                     (\A k2 \in DOMAIN call[c].headers : CanonicalKey(k2) # CanonicalKey(k))
                        => HeaderGet(call[c].req.Header, k) = maps[ClientMap][k]

\* C8, where it does hold: the same, for the calls whose merged header map holds
\* no two keys with one canonical form.
C8_HoldsWithoutSpellingClash ==
    \A c \in Calls :
        (/\ call[c].pc = "do"
         /\ call[c].hookDid.op # "header"
         /\ \A k1, k2 \in DOMAIN maps[call[c].muxReq.Headers] :
               CanonicalKey(k1) = CanonicalKey(k2) => k1 = k2)
            => /\ \A k \in DOMAIN call[c].headers :
                     HeaderGet(call[c].req.Header, k) = call[c].headers[k]
               /\ \A k \in DOMAIN maps[ClientMap] :
                     (\A k2 \in DOMAIN call[c].headers : CanonicalKey(k2) # CanonicalKey(k))
                        => HeaderGet(call[c].req.Header, k) = maps[ClientMap][k]

\* C9: DoRequest never adds, removes or changes a client default header: every
\* step of a call (and the call's return) leaves the client's header map as the
\* SetHeader calls made it.
C9_DefaultsNotMutated ==
    [][call' # call => maps'[ClientMap] = maps[ClientMap]]_vars

C9_Witness ==
    \E c \in Calls :
        /\ Returned(c)
        /\ call[c].nDo = 2
        /\ call[c].hookDid.op = "header"
        /\ call[c].hookDid.key \notin DOMAIN maps[ClientMap]
        /\ call[c].headers # EmptyMap
        /\ maps[ClientMap] # EmptyMap
        /\ maps[call[c].muxReq.Headers] # maps[ClientMap]

\* the current attempt, or the one just ended, received a response
AttemptOverWithResponse(c) ==
    /\ call[c].pc \in {"loop", "done"}
    /\ call[c].answer.kind = "resp"

\* the hook invocations up to the transport call of an attempt
HookOrder(c) ==
    /\ call[c].nBefore = (IF BeforeRequest /\ call[c].pc \notin {"idle", "before"}
                             /\ call[c].fault # "url"
                          THEN 1 ELSE 0)
    /\ call[c].pc \in {"do", "read", "after"} => call[c].nAfter = 0
    /\ call[c].pc \in {"status", "decode"}
          => call[c].nAfter = (IF AfterResponse THEN 1 ELSE 0)
    /\ ~AfterResponse => call[c].nAfter = 0

\* C10 as stated: within one call the pre-send hook is invoked exactly once,
\* before the first transport attempt and not again on retries; the
\* post-receive hook is invoked exactly once for each attempt whose transport
\* call returned a response, before that attempt's status check and decoding.
C10_AsStated ==
    \A c \in Calls :
        /\ HookOrder(c)
        /\ (AfterResponse /\ AttemptOverWithResponse(c)) => call[c].nAfter = 1

\* C10, amended: within one call the pre-send hook, when set, is invoked exactly
\* once, before the first transport attempt and not again on retries; the
\* post-receive hook, when set, is invoked exactly once for each attempt whose
\* response body was read (also for a status outside [200,300)), before that
\* attempt's status check and decoding, and not at all for an attempt whose
\* response body could not be read.
C10_HookInvocations ==
    \A c \in Calls :
        /\ HookOrder(c)
        /\ (AfterResponse /\ AttemptOverWithResponse(c))
              => call[c].nAfter = (IF call[c].fault = "read" THEN 0 ELSE 1)

C10_Witness ==
    \E c \in Calls :
        /\ BeforeRequest /\ AfterResponse
        /\ call[c].pc = "loop"
        /\ call[c].attempt = 2
        /\ call[c].answer.kind = "resp"
        /\ call[c].nBefore = 1
        /\ call[c].nAfter = 1

\* C11: when all maxRetries+1 attempts fail retryably, DoRequest returns the
\* exhausted-retries error, which reports attempts = maxRetries+1 and wraps the
\* error recorded for the final attempt: the network error of that attempt, or
\* the status error with that attempt's status code.
C11_ExhaustedWrapsLastError ==
    \A c \in Calls :
        (OnlyRetryableFailures(c) /\ maxRetries >= 0)
            => /\ call[c].ret.err.kind = "exhausted"
               /\ call[c].ret.err.attempts = maxRetries + 1
               /\ call[c].ret.err.attempts = call[c].nDo
               /\ call[c].ret.err.cause.at = maxRetries
               /\ call[c].ret.err.cause.kind
                     = (IF call[c].answer.kind = "err" THEN "net" ELSE "http")
               /\ call[c].answer.kind = "resp"
                     => call[c].ret.err.cause.code = call[c].answer.code

C11_Witness ==
    \E c \in Calls :
        /\ OnlyRetryableFailures(c)
        /\ maxRetries = 2
        /\ call[c].ret.err.attempts = 3
        /\ call[c].ret.err.cause.kind = "net"
        /\ call[c].ret.err.cause.at = 2
        /\ call[c].anyResp

\* C15: serialization, body-read and decode errors are never retried.  A
\* serialization error returns before any transport invocation; a body-read or
\* decode error on attempt k returns at once, with the error of that step, no
\* sleep after the attempt and no transport invocation after it, whatever the
\* retry budget left.
C15_FatalErrorsNotRetried ==
    \A c \in Calls :
        /\ call[c].fault = "marshal"
              => /\ Returned(c)
                 /\ call[c].ret.err.kind = "marshal"
                 /\ call[c].nDo = 0
                 /\ call[c].sleeps = << >>
        /\ call[c].fault \in {"read", "decode"}
              => /\ Returned(c)
                 /\ call[c].ret.err.kind = call[c].fault
                 /\ call[c].nDo = call[c].attempt + 1
                 /\ Len(call[c].sleeps) = call[c].attempt
                 /\ call[c].last = "do"

C15_Witness ==
    \E c \in Calls :
        /\ call[c].fault = "decode"
        /\ call[c].ret.err.kind = "decode"
        /\ call[c].attempt = 1
        /\ call[c].nDo = 2
        /\ maxRetries = 2

\* C16: when an attempt ends with a status outside [200,300), the error
\* recorded for it carries the status code and the body bytes of that response.
C16_StatusErrorCarriesBody ==
    \A c \in Calls :
        (/\ call[c].lastErr.kind = "http"
         /\ call[c].lastErr.at = call[c].nDo - 1
         /\ call[c].answer.kind = "resp")
            => /\ call[c].lastErr.code = call[c].answer.code
               /\ call[c].lastErr.body = call[c].answer.body

\* C19: for every value SetMaxRetries accepted, a call that got past URL
\* resolution, the pre-send hook, serialization and request construction
\* invoked the transport at least once, and an exhausted-retries error reports
\* at least one attempt and wraps a recorded (non-nil) error.
C19_AtLeastOneAttempt ==
    \A c \in Calls :
        Returned(c) =>
            /\ call[c].fault \notin {"url", "before", "marshal", "newreq"}
                  => call[c].nDo >= 1
            /\ call[c].ret.err.kind = "exhausted"
                  => /\ call[c].ret.err.attempts >= 1
                     /\ call[c].ret.err.cause # NilErr

\* C18: when a call returns, on whichever path, every response body it
\* obtained from the transport is closed: none is left without a deferred Close.
C18_BodiesClosedAtReturn ==
    \A c \in Calls : Returned(c) => call[c].noClose = {}

\* the body of the request descriptor once the pre-send hook has run
BodyAfterHook(c) ==
    IF call[c].hookDid.op = "body" THEN call[c].hookDid.value ELSE call[c].body

\* the JSON text of the bodies of the model
JSONText(b) ==
    CASE b = "obj" -> "{\"obj\":1}"
      [] b = "arr" -> "[1]"
      [] OTHER -> ""

\* C14: the body is serialized at most once per call, after the pre-send hook
\* and before the first attempt, so it is the body the hook left that is sent;
\* the transport reads the same bytes, from their start, on every attempt; a nil
\* body is never serialized and gives no request body on any attempt.
C14_BodySerializedOnce ==
    \A c \in Calls :
        /\ call[c].nMarshal <= 1
        /\ call[c].pc = "before" => call[c].nMarshal = 0
        /\ call[c].nDo >= 1 =>
              /\ call[c].nMarshal = (IF BodyAfterHook(c) = NilBody THEN 0 ELSE 1)
              /\ call[c].sent.has = (BodyAfterHook(c) # NilBody)
              /\ call[c].sent.bytes = JSONText(BodyAfterHook(c))
              /\ call[c].origBody = JSONText(BodyAfterHook(c))

C14_Witness ==
    \E c \in Calls :
        /\ call[c].nDo = 2
        /\ call[c].body = "obj"
        /\ call[c].hookDid = [op |-> "body", value |-> "arr"]
        /\ call[c].sent = [has |-> TRUE, bytes |-> "[1]"]

\* the Content-Type values call c was given: those of the merged header map,
\* which holds the defaults, the per-call headers and the hook's writes
SuppliedContentTypes(c) ==
    LET hdr == maps[call[c].muxReq.Headers] IN
    {hdr[k] : k \in {x \in DOMAIN hdr : CanonicalKey(x) = "Content-Type"}}

\* C17 as stated: on every attempt the transport request has Content-Type
\* application/json when the body is non-nil and no Content-Type was supplied;
\* a supplied Content-Type is sent unchanged; a nil body gets no default.
C17_AsStated ==
    \A c \in Calls :
        call[c].pc \in {"do", "read", "after", "status", "decode"} =>
            LET h == call[c].req.Header
                sup == SuppliedContentTypes(c)
                body == call[c].muxReq.Body
            IN /\ (body # NilBody /\ sup = {})
                     => ("Content-Type" \in DOMAIN h
                         /\ h["Content-Type"] = "application/json")
               /\ sup # {} => ("Content-Type" \in DOMAIN h /\ h["Content-Type"] \in sup)
               /\ (body = NilBody /\ sup = {}) => "Content-Type" \notin DOMAIN h

\* C17, amended: as C17, but it is a supplied non-empty Content-Type that is
\* sent unchanged; an empty one is replaced by application/json when the body
\* is non-nil, and sent as it is when the body is nil.
C17_DefaultContentType ==
    \A c \in Calls :
        call[c].pc \in {"do", "read", "after", "status", "decode"} =>
            LET h == call[c].req.Header
                sup == SuppliedContentTypes(c)
                body == call[c].muxReq.Body
            IN /\ (body # NilBody /\ sup = {})
                     => ("Content-Type" \in DOMAIN h
                         /\ h["Content-Type"] = "application/json")
               /\ sup # {} =>
                     /\ "Content-Type" \in DOMAIN h
                     /\ \/ h["Content-Type"] \in sup \ {""}
                        \/ /\ "" \in sup
                           /\ h["Content-Type"]
                                 = (IF body # NilBody THEN "application/json" ELSE "")
               /\ (body = NilBody /\ sup = {}) => "Content-Type" \notin DOMAIN h

C17_Witness ==
    \E c \in Calls :
        /\ call[c].pc = "do"
        /\ call[c].attempt = 1
        /\ call[c].muxReq.Body # NilBody
        /\ SuppliedContentTypes(c) = {"p"}
        /\ call[c].req.Header["Content-Type"] = "p"

\* C12: the context the caller supplied is the context of the transport request
\* of every attempt, and a context that is already cancelled does not cut the
\* call short: no response is ever received, each transport call is recorded
\* as a network error and slept on, and with maxRetries = N >= 0 a call that
\* got as far as the loop invokes the transport N+1 times before it returns the
\* exhausted-retries error.
C12_CancelledContextStillRetries ==
    \A c \in Calls :
        /\ (call[c].req # NilReq /\ call[c].ctx # NilCtx)
              => call[c].req.Context = call[c].ctx
        /\ call[c].ctx = CallerCtx(TRUE)
              => /\ call[c].pc \notin {"read", "after", "status", "decode"}
                 /\ call[c].lastErr # NilErr => call[c].lastErr.kind = "net"
                 /\ Len(call[c].sleeps) = call[c].attempt
                 /\ (/\ Returned(c)
                     /\ call[c].fault = "none"
                     /\ maxRetries >= 0)
                       => /\ call[c].nDo = maxRetries + 1
                          /\ call[c].ret.err.kind = "exhausted"
                          /\ call[c].ret.err.cause = [kind |-> "net", at |-> maxRetries]
                          /\ call[c].ret.resp = NilResp

C12_Witness ==
    \E c \in Calls :
        /\ Returned(c)
        /\ call[c].ctx = CallerCtx(TRUE)
        /\ maxRetries = 2
        /\ backoff = 1
        /\ call[c].nDo = 3
        /\ call[c].req.Context = CallerCtx(TRUE)
        /\ call[c].sleeps = <<1, 2, 4>>
        /\ call[c].ret.err.kind = "exhausted"

\* the result of resolving each relative reference of the model against the
\* two well-formed bases, worked out by RFC 3986 section 5.2
ResolvedByRFC(base, ref) ==
    CASE ref = NoURL -> base
      [] ref = <<"//", "h", "/", "a">> -> AbsURL
      [] ref = <<"a">> /\ base = BaseDir -> <<"http:", "//", "b", "/", "v1", "/", "a">>
      [] OTHER -> <<"http:", "//", "b", "/", "a">>

\* C13: resolveURL returns an absolute input unchanged whatever the base URL is,
\* a malformed one included; a relative input resolved against the base URL
\* when one is configured (and well-formed); a relative input unchanged, and no
\* error, when none is configured.  The URL of every transport request is that
\* result.
C13_ResolveURL ==
    \A c \in Calls :
        call[c].pc # "idle" =>
            LET in == call[c].rawURL
                resolved == call[c].fault # "url" /\ call[c].muxReq # NilReq
            IN /\ in = AbsURL => (resolved /\ call[c].muxReq.URL = in)
               /\ (in \in RelURLs \cup {NoURL} /\ BaseURL = NoURL)
                     => (resolved /\ call[c].muxReq.URL = in)
               /\ (in \in RelURLs \cup {NoURL} /\ BaseURL \in {BaseDir, BaseFile})
                     => (resolved /\ call[c].muxReq.URL = ResolvedByRFC(BaseURL, in))
               /\ call[c].req # NilReq => call[c].req.URL = call[c].muxReq.URL

C13_Witness ==
    \E c \in Calls :
        /\ call[c].pc = "do"
        /\ BaseURL = BaseFile
        /\ call[c].rawURL = <<"..", "/", "a">>
        /\ call[c].req.URL = <<"http:", "//", "b", "/", "a">>

\* an absolute input passes through on a client whose base URL is malformed
C13_WitnessMalformedBase ==
    \E c \in Calls :
        /\ call[c].pc = "do"
        /\ BaseURL = BadURL
        /\ call[c].req.URL = AbsURL

\* the header map call c should hold: the client defaults, the call's own
\* per-call headers over them, and what the call's own pre-send hook wrote
OwnHeaders(c) ==
    LET d == maps[ClientMap]
        h == call[c].headers
        w == call[c].hookDid
        merged == [k \in (DOMAIN d) \cup (DOMAIN h) |-> IF k \in DOMAIN h THEN h[k] ELSE d[k]]
    IN IF w.op = "header"
       THEN [k \in (DOMAIN merged) \cup {w.key} |-> IF k = w.key THEN w.value ELSE merged[k]]
       ELSE merged

\* C20: two calls interleaved on one client, with no setter called meanwhile, do
\* not interfere.  Each call has a header map of its own, which is neither the
\* client's nor the other call's and holds the defaults, its own per-call
\* headers and its own hook's writes, and nothing else; the headers of its
\* transport requests come from that map; and its attempts are counted by its
\* own failures: one sleep per failed attempt, one transport invocation per
\* attempt, maxRetries+1 of them when it runs out.
C20_CallsDoNotInterfere ==
    \A c \in Calls :
        call[c].muxReq # NilReq =>
            /\ call[c].muxReq.Headers # ClientMap
            /\ \A d \in Calls \ {c} :
                  call[d].muxReq # NilReq => call[d].muxReq.Headers # call[c].muxReq.Headers
            /\ call[c].muxReq.Headers \in DOMAIN maps
            /\ maps[call[c].muxReq.Headers] = OwnHeaders(c)
            /\ call[c].req # NilReq => call[c].req.Header \in RangeSetHeaders(OwnHeaders(c))
            /\ Len(call[c].sleeps) = call[c].attempt
            /\ call[c].nDo = (IF call[c].pc \in {"read", "after", "status", "decode"}
                                 \/ (call[c].pc = "done" /\ call[c].last = "do")
                              THEN call[c].attempt + 1 ELSE call[c].attempt)
            /\ call[c].ret.err.kind = "exhausted" => call[c].nDo = maxRetries + 1

C20_Witness ==
    /\ call[1].pc = "do"
    /\ call[2].pc = "do"
    /\ call[1].attempt = 1
    /\ call[2].attempt = 0
    /\ "X-A" \in DOMAIN maps[ClientMap]
    /\ DOMAIN call[1].headers = {"x-a"}
    /\ call[1].hookDid.op = "none"
    /\ call[2].headers = EmptyMap
    /\ call[2].hookDid.op = "header"
    /\ call[1].req.Header = [k \in {"X-A"} |-> "p"]
    /\ call[2].req.Header = [k \in {"X-A"} |-> "h"]

====
